---- MODULE Spec2Model ----
EXTENDS Integers, Sequences, FiniteSets

\* Model of src/src/lib.rs: the tick grid resolver (get_initializable_tick_index,
\* is_tick_initializable) and the amount-delta calculator (try_get_amount_delta).
\* The three functions are pure; a behaviour is one call: Init draws the build
\* profile, the function and its arguments, and the function's action runs it
\* and records its locals and its outcome.

\* ---------------------------------------------------------------------------
\* Bounds of the argument sets
\* ---------------------------------------------------------------------------
\* tick indices -MaxTick..MaxTick, and the MaxTick + 1 largest i32 values
MaxTick == 27
\* tick spacings 0..MaxSpacing
MaxSpacing == 10
\* prices 0..MaxSmallPrice beside the fixed wide prices
MaxSmallPrice == 3
\* liquidities 0..MaxSmallLiquidity beside the fixed wide liquidities
MaxSmallLiquidity == 1

\* ---------------------------------------------------------------------------
\* Program constants
\* ---------------------------------------------------------------------------
ARITHMETIC_OVERFLOW == 9003
AMOUNT_EXCEEDS_MAX_U64 == 9004
\* i32::MAX
I32Max == 2147483647

\* ---------------------------------------------------------------------------
\* Wide unsigned integers. u128 and ethnum::U256 values are wider than TLC's
\* integers, so a value is its little-endian sequence of base-2^8
\* limbs without high zero limbs (zero is << >>). The operators below are
\* exact arithmetic over unbounded naturals; the fixed-width operations of
\* the program are built from them further down.
\* ---------------------------------------------------------------------------
Base == 2^8

Min(x, y) == IF x < y THEN x ELSE y
Max(x, y) == IF x < y THEN y ELSE x
Highest(S) == CHOOSE m \in S : \A i \in S : i <= m

Limb(a, i) == IF i <= Len(a) THEN a[i] ELSE 0

\* a without its high zero limbs
Norm(a) ==
    LET nonzero == {i \in 1..Len(a) : a[i] # 0}
    IN  IF nonzero = {} THEN << >> ELSE SubSeq(a, 1, Highest(nonzero))

RECURSIVE FromNat(_)
FromNat(n) == IF n = 0 THEN << >> ELSE <<n % Base>> \o FromNat(n \div Base)

Pow2(k) == [i \in 1..(k \div 8 + 1) |-> IF i = k \div 8 + 1 THEN 2^(k % 8) ELSE 0]

\* a < b: decided by the highest limb where they differ
Less(a, b) ==
    IF Len(a) # Len(b) THEN Len(a) < Len(b)
    ELSE LET differ == {i \in 1..Len(a) : a[i] # b[i]}
         IN  differ # {} /\ a[Highest(differ)] < b[Highest(differ)]

\* The passes over the limbs below (a carry, a borrow or a remainder running
\* from limb to limb) split their range in two halves and run one half after
\* the other.

\* limbs lo..hi of a + b with the carry into limb lo, and the carry out
RECURSIVE AddRange(_, _, _, _, _)
AddRange(a, b, lo, hi, carry) ==
    IF lo = hi
    THEN LET t == Limb(a, lo) + Limb(b, lo) + carry
         IN  [limbs |-> <<t % Base>>, carry |-> t \div Base]
    ELSE LET mid == (lo + hi) \div 2
             low == AddRange(a, b, lo, mid, carry)
             high == AddRange(a, b, mid + 1, hi, low.carry)
         IN  [limbs |-> low.limbs \o high.limbs, carry |-> high.carry]

Add(a, b) ==
    LET n == Max(Len(a), Len(b))
    IN  IF n = 0 THEN << >>
        ELSE LET s == AddRange(a, b, 1, n, 0)
             IN  IF s.carry = 0 THEN s.limbs ELSE Append(s.limbs, s.carry)

\* limbs lo..hi of a - b with the borrow from limb lo, and the borrow out
RECURSIVE SubRange(_, _, _, _, _)
SubRange(a, b, lo, hi, borrow) ==
    IF lo = hi
    THEN LET t == Limb(a, lo) - Limb(b, lo) - borrow
         IN  IF t < 0 THEN [limbs |-> <<t + Base>>, borrow |-> 1]
             ELSE [limbs |-> <<t>>, borrow |-> 0]
    ELSE LET mid == (lo + hi) \div 2
             low == SubRange(a, b, lo, mid, borrow)
             high == SubRange(a, b, mid + 1, hi, low.borrow)
         IN  [limbs |-> low.limbs \o high.limbs, borrow |-> high.borrow]

\* a - b for a >= b
Sub(a, b) == IF a = << >> THEN << >> ELSE Norm(SubRange(a, b, 1, Len(a), 0).limbs)

\* limbs lo..hi of a * d with the carry into limb lo, and the carry out
RECURSIVE MulSmallRange(_, _, _, _, _)
MulSmallRange(a, d, lo, hi, carry) ==
    IF lo = hi
    THEN LET t == a[lo] * d + carry
         IN  [limbs |-> <<t % Base>>, carry |-> t \div Base]
    ELSE LET mid == (lo + hi) \div 2
             low == MulSmallRange(a, d, lo, mid, carry)
             high == MulSmallRange(a, d, mid + 1, hi, low.carry)
         IN  [limbs |-> low.limbs \o high.limbs, carry |-> high.carry]

\* a * d for one limb d
MulSmall(a, d) ==
    IF d = 0 \/ a = << >> THEN << >>
    ELSE LET p == MulSmallRange(a, d, 1, Len(a), 0)
         IN  IF p.carry = 0 THEN p.limbs ELSE Append(p.limbs, p.carry)

\* a * 2^(8 n)
ShiftLimbs(a, n) == IF a = << >> THEN << >> ELSE [i \in 1..n |-> 0] \o a

\* a * (limbs lo..hi of b, in their places)
RECURSIVE MulRange(_, _, _, _)
MulRange(a, b, lo, hi) ==
    IF lo = hi THEN ShiftLimbs(MulSmall(a, b[lo]), lo - 1)
    ELSE LET mid == (lo + hi) \div 2
         IN  Add(MulRange(a, b, lo, mid), MulRange(a, b, mid + 1, hi))

Mul(a, b) == IF b = << >> THEN << >> ELSE MulRange(a, b, 1, Len(b))

\* the largest d <= guess with d * v <= r
RECURSIVE Correct(_, _, _)
Correct(r, v, guess) ==
    IF Less(r, MulSmall(v, guess)) THEN Correct(r, v, guess - 1) ELSE guess

\* the largest limb d with d * v <= r, for r < v * Base: the leading limbs of
\* r by the leading limbs of v never fall below it, and Correct brings the
\* guess down to it
Digit(r, v) ==
    IF Less(r, v) THEN 0
    ELSE LET m == Len(v)
         IN  IF m = 1
             THEN (Limb(r, 2) * Base + Limb(r, 1)) \div v[1]
             ELSE LET r3 == (Limb(r, m + 1) * Base + Limb(r, m)) * Base + Limb(r, m - 1)
                      v2 == v[m] * Base + v[m - 1]
                  IN  Correct(r, v, Min(Base - 1, r3 \div v2))

\* Long division of limbs hi down to lo of u by v, given the remainder rem of
\* the limbs above hi: the quotient limbs, most significant first, and the
\* remainder
RECURSIVE DivRange(_, _, _, _, _)
DivRange(u, v, lo, hi, rem) ==
    IF lo = hi
    THEN LET r == Norm(<<u[lo]>> \o rem)
             d == Digit(r, v)
         IN  [quot |-> <<d>>, rem |-> Sub(r, MulSmall(v, d))]
    ELSE LET mid == (lo + hi) \div 2
             high == DivRange(u, v, mid + 1, hi, rem)
             low == DivRange(u, v, lo, mid, high.rem)
         IN  [quot |-> high.quot \o low.quot, rem |-> low.rem]

Reverse(s) == [i \in 1..Len(s) |-> s[Len(s) + 1 - i]]

\* u / v and u % v for v # 0
DivRem(u, v) ==
    IF u = << >> THEN [quot |-> << >>, rem |-> << >>]
    ELSE LET qr == DivRange(u, v, 1, Len(u), << >>)
         IN  [quot |-> Norm(Reverse(qr.quot)), rem |-> qr.rem]

\* a * 2^n
ShiftBits(a, n) == ShiftLimbs(MulSmall(a, 2^(n % 8)), n \div 8)

\* a mod 2^(8 n)
LowLimbs(a, n) == Norm(SubSeq(a, 1, Min(n, Len(a))))

Zero == << >>
One == <<1>>
\* u64::MAX, u128::MAX
U64Max == Sub(Pow2(64), One)
U128Max == Sub(Pow2(128), One)
\* limbs of a u64 and of a U256
U64Limbs == 64 \div 8
U256Limbs == 256 \div 8

\* ---------------------------------------------------------------------------
\* Rust values: Option, Result, a returned value, a panic
\* ---------------------------------------------------------------------------
None == [some |-> FALSE]
Some(v) == [some |-> TRUE, val |-> v]
Return(v) == [kind |-> "value", val |-> v]
Ok(v) == [kind |-> "Ok", val |-> v]
Err(code) == [kind |-> "Err", code |-> code]
Panic == [kind |-> "panic"]
Pending == [kind |-> "pending"]

\* ---------------------------------------------------------------------------
\* i32 arithmetic: / and % truncate toward zero, + overflows past i32::MAX
\* ---------------------------------------------------------------------------
TruncDiv(a, b) == IF a >= 0 THEN a \div b ELSE -((-a) \div b)
TruncRem(a, b) == a - b * TruncDiv(a, b)

\* a + b for b >= 0: past i32::MAX a build with overflow checks panics and a
\* build without them wraps modulo 2^32
I32Add(a, b, checks) ==
    IF a > I32Max - b
    THEN (IF checks THEN Panic ELSE Return((a - I32Max) + (b - I32Max) - 2))
    ELSE Return(a + b)

\* ---------------------------------------------------------------------------
\* Tick grid resolver
\* ---------------------------------------------------------------------------
ShouldRoundUp(round_up, remainder, tick_spacing_i32) ==
    IF round_up.some
    THEN round_up.val /\ remainder > 0
    ELSE remainder >= tick_spacing_i32 \div 2

get_initializable_tick_index(tick_index, tick_spacing, round_up, checks) ==
    LET tick_spacing_i32 == tick_spacing
    IN  IF tick_spacing_i32 = 0 THEN Panic
        ELSE LET remainder == TruncRem(tick_index, tick_spacing_i32)
                 result == TruncDiv(tick_index, tick_spacing_i32) * tick_spacing_i32
             IN  IF ShouldRoundUp(round_up, remainder, tick_spacing_i32)
                 THEN I32Add(result, tick_spacing_i32, checks)
                 ELSE Return(result)

is_tick_initializable(tick_index, tick_spacing) ==
    LET tick_spacing_i32 == tick_spacing
    IN  IF tick_spacing_i32 = 0 THEN Panic
        ELSE Return(TruncRem(tick_index, tick_spacing_i32) = 0)

\* ---------------------------------------------------------------------------
\* Amount-delta calculator
\* ---------------------------------------------------------------------------
\* order_prices without the comparison: the prices are never exchanged
order_prices_unordered(a, b) == <<a, b>>

order_prices(a, b) == IF Less(a, b) THEN <<a, b>> ELSE <<b, a>>

\* u128 a - b: below zero a build with overflow checks panics and a build
\* without them wraps modulo 2^128
U128Sub(a, b, checks) ==
    IF Less(a, b)
    THEN (IF checks THEN Panic ELSE Return(Sub(Add(Pow2(128), a), b)))
    ELSE Return(Sub(a, b))

\* U256::checked_mul: None when the product does not fit 256 bits
checked_mul(a, b) ==
    LET p == Mul(a, b)
    IN  IF Len(p) > U256Limbs THEN None ELSE Some(p)

\* U256::checked_shl: None only when the shift amount is 256 or more; the bits
\* shifted out past bit 255 are dropped
checked_shl(a, rhs) ==
    IF rhs >= 256 THEN None ELSE Some(LowLimbs(ShiftBits(a, rhs), U256Limbs))

\* a narrowing that keeps the low 64 bits, as an `as u64` cast would
try_into_truncating(result) == Ok(LowLimbs(result, U64Limbs))

\* u64::try_from(U256)
try_into(result) ==
    IF Len(result) > U64Limbs THEN Err(AMOUNT_EXCEEDS_MAX_U64) ELSE Ok(result)

\* a rounding that increments whenever round_up is set, whatever the remainder
RoundResultAlways(round_up, quotient, remainder) ==
    IF round_up THEN Add(quotient, One) ELSE quotient

RoundResult(round_up, quotient, remainder) ==
    IF round_up /\ remainder # Zero THEN Add(quotient, One) ELSE quotient

\* The locals of try_get_amount_delta before any is set (None: not reached)
Unset ==
    [numerator |-> None, denominator |-> None, quotient |-> None,
     remainder |-> None, result |-> None]

\* One run of try_get_amount_delta: the locals it has set and its outcome
AmountDeltaRun(sqrt_price_1, sqrt_price_2, liquidity, round_up, checks) ==
    LET ordered == order_prices(sqrt_price_1, sqrt_price_2)
        sqrt_price_lower == ordered[1]
        sqrt_price_upper == ordered[2]
        sqrt_price_diff == U128Sub(sqrt_price_upper, sqrt_price_lower, checks)
    IN
    IF sqrt_price_diff = Panic THEN [locals |-> Unset, ret |-> Panic] ELSE
    LET product == checked_mul(liquidity, sqrt_price_diff.val) IN
    IF ~product.some
    THEN [locals |-> Unset, ret |-> Err(ARITHMETIC_OVERFLOW)] ELSE
    LET shifted == checked_shl(product.val, 64) IN
    IF ~shifted.some
    THEN [locals |-> Unset, ret |-> Err(ARITHMETIC_OVERFLOW)] ELSE
    LET numerator == shifted.val
        product_lu == checked_mul(sqrt_price_lower, sqrt_price_upper)
    IN
    IF ~product_lu.some
    THEN [locals |-> [Unset EXCEPT !.numerator = Some(numerator)],
          ret |-> Err(ARITHMETIC_OVERFLOW)] ELSE
    LET denominator == product_lu.val IN
    IF denominator = Zero
    THEN [locals |-> [Unset EXCEPT !.numerator = Some(numerator),
                                   !.denominator = Some(denominator)],
          ret |-> Panic] ELSE
    LET qr == DivRem(numerator, denominator)
        result == RoundResult(round_up, qr.quot, qr.rem)
    IN  [locals |-> [numerator |-> Some(numerator),
                     denominator |-> Some(denominator),
                     quotient |-> Some(qr.quot), remainder |-> Some(qr.rem),
                     result |-> Some(result)],
         ret |-> try_into(result)]

try_get_amount_delta(sqrt_price_1, sqrt_price_2, liquidity, round_up, checks) ==
    AmountDeltaRun(sqrt_price_1, sqrt_price_2, liquidity, round_up, checks).ret

\* ---------------------------------------------------------------------------
\* The state machine: one call of one function
\* ---------------------------------------------------------------------------
VARIABLES
    overflow_checks,  \* the build's overflow-checks setting
    fn,               \* the function called
    args,             \* its arguments
    locals,           \* the locals try_get_amount_delta has set
    ret               \* the outcome: Pending, a value, Ok, Err or a panic

vars == <<overflow_checks, fn, args, locals, ret>>

TickIndices == (-MaxTick..MaxTick) \cup {I32Max - k : k \in 0..MaxTick}
TickSpacings == 0..MaxSpacing
RoundUpOptions == {None, Some(TRUE), Some(FALSE)}
SqrtPrices ==
    {FromNat(n) : n \in 0..MaxSmallPrice}
        \cup {Pow2(64), Pow2(96), Add(Pow2(96), One), U128Max}
Liquidities ==
    {FromNat(n) : n \in 0..MaxSmallLiquidity}
        \cup {Pow2(64), Pow2(96), U128Max}

Functions ==
    {"get_initializable_tick_index", "is_tick_initializable", "try_get_amount_delta"}

Arguments(f) ==
    IF f = "get_initializable_tick_index"
    THEN [tick_index : TickIndices, tick_spacing : TickSpacings,
          round_up : RoundUpOptions]
    ELSE IF f = "is_tick_initializable"
    THEN [tick_index : TickIndices, tick_spacing : TickSpacings]
    ELSE [sqrt_price_1 : SqrtPrices, sqrt_price_2 : SqrtPrices,
          liquidity : Liquidities, round_up : BOOLEAN]

Init ==
    /\ fn \in Functions
    /\ overflow_checks \in BOOLEAN
    /\ args \in Arguments(fn)
    /\ locals = Unset
    /\ ret = Pending

CallGetInitializableTickIndex ==
    /\ fn = "get_initializable_tick_index"
    /\ ret = Pending
    /\ ret' = get_initializable_tick_index(args.tick_index, args.tick_spacing,
                                           args.round_up, overflow_checks)
    /\ UNCHANGED <<overflow_checks, fn, args, locals>>

CallIsTickInitializable ==
    /\ fn = "is_tick_initializable"
    /\ ret = Pending
    /\ ret' = is_tick_initializable(args.tick_index, args.tick_spacing)
    /\ UNCHANGED <<overflow_checks, fn, args, locals>>

CallTryGetAmountDelta ==
    /\ fn = "try_get_amount_delta"
    /\ ret = Pending
    /\ LET run == AmountDeltaRun(args.sqrt_price_1, args.sqrt_price_2,
                                 args.liquidity, args.round_up, overflow_checks)
       IN  /\ locals' = run.locals
           /\ ret' = run.ret
    /\ UNCHANGED <<overflow_checks, fn, args>>

Next ==
    \/ CallGetInitializableTickIndex
    \/ CallIsTickInitializable
    \/ CallTryGetAmountDelta

Spec == Init /\ [][Next]_vars

\* ---------------------------------------------------------------------------
\* Properties
\* ---------------------------------------------------------------------------
Returned == ret # Pending
GetTickReturned == fn = "get_initializable_tick_index" /\ Returned
AmountDeltaReturned == fn = "try_get_amount_delta" /\ Returned

\* the smaller and the larger of the two prices, and the exact numerator and
\* denominator of the amount over unbounded naturals
Lower == IF Less(args.sqrt_price_1, args.sqrt_price_2)
         THEN args.sqrt_price_1 ELSE args.sqrt_price_2
Upper == IF Less(args.sqrt_price_1, args.sqrt_price_2)
         THEN args.sqrt_price_2 ELSE args.sqrt_price_1
ExactProduct == Mul(args.liquidity, Sub(Upper, Lower))
ExactNumerator == ShiftBits(ExactProduct, 64)
ExactDenominator == Mul(Lower, Upper)
ExactFloor == DivRem(ExactNumerator, ExactDenominator).quot
ExactCeiling ==
    IF DivRem(ExactNumerator, ExactDenominator).rem = Zero
    THEN ExactFloor ELSE Add(ExactFloor, One)

\* an intermediate of the amount does not fit 256 bits
IntermediateOverflows ==
    \/ Len(ExactProduct) > U256Limbs
    \/ Len(ExactNumerator) > U256Limbs
    \/ Len(ExactDenominator) > U256Limbs

\* C1: with both prices non-zero, an Ok amount is the floor (round_up false)
\* or the ceiling (round_up true) of liquidity * (upper - lower) * 2^64 /
\* (lower * upper) over unbounded integers.
C1_ExactAmount ==
    (/\ AmountDeltaReturned
     /\ args.sqrt_price_1 # Zero
     /\ args.sqrt_price_2 # Zero
     /\ ret.kind = "Ok")
        => ret.val = (IF args.round_up THEN ExactCeiling ELSE ExactFloor)

\* C2: when an intermediate (liquidity * diff, that product shifted left by
\* 64 bits, or lower * upper) overflows 256 bits, the call returns
\* Err(ARITHMETIC_OVERFLOW). Stated for the non-zero prices of valid use.
C2_OverflowReported ==
    (/\ AmountDeltaReturned
     /\ args.sqrt_price_1 # Zero
     /\ args.sqrt_price_2 # Zero
     /\ IntermediateOverflows)
        => ret = Err(ARITHMETIC_OVERFLOW)

\* C3: every call of try_get_amount_delta, zero prices included, returns
\* Ok(amount), Err(ARITHMETIC_OVERFLOW) or Err(AMOUNT_EXCEEDS_MAX_U64): it
\* never panics, and an Ok amount never comes from a wrapped intermediate.
C3_NoPanicNoWrap ==
    AmountDeltaReturned
        => /\ ret.kind \in {"Ok", "Err"}
           /\ ret.kind = "Err"
                => ret.code \in {ARITHMETIC_OVERFLOW, AMOUNT_EXCEEDS_MAX_U64}
           /\ ret.kind = "Ok" => ~IntermediateOverflows

\* C4: a final value (the quotient after the optional increment) above
\* 2^64 - 1 returns Err(AMOUNT_EXCEEDS_MAX_U64), a code other than
\* ARITHMETIC_OVERFLOW; a final value of at most 2^64 - 1 returns Ok of
\* exactly that value.
C4_Narrowing ==
    (AmountDeltaReturned /\ locals.result.some)
        => /\ AMOUNT_EXCEEDS_MAX_U64 # ARITHMETIC_OVERFLOW
           /\ IF Less(U64Max, locals.result.val)
              THEN ret = Err(AMOUNT_EXCEEDS_MAX_U64)
              ELSE ret = Ok(locals.result.val)

\* C4 witness: rounding up the quotient 2^64 - 1 gives the final value 2^64,
\* the least one that does not fit, and the call returned the error.
C4_Witness ==
    /\ AmountDeltaReturned
    /\ locals.result = Some(Pow2(64))
    /\ locals.quotient = Some(U64Max)
    /\ ret = Err(AMOUNT_EXCEEDS_MAX_U64)

\* C5: for any price p, any liquidity and either rounding,
\* try_get_amount_delta(p, p, L, round_up) returns Ok(0).
C5_EqualPricesZero ==
    (AmountDeltaReturned /\ args.sqrt_price_1 = args.sqrt_price_2)
        => ret = Ok(Zero)

\* t is a multiple of s
Aligned(t, s) == t % s = 0

\* C6: for s > 0, Some(false) returns a tick <= t and Some(true) a tick >= t,
\* and both return t itself when t is a multiple of s.
C6_DirectedRounding ==
    (/\ GetTickReturned
     /\ args.tick_spacing > 0
     /\ args.round_up.some)
        => /\ ret.kind = "value"
           /\ IF Aligned(args.tick_index, args.tick_spacing)
              THEN ret.val = args.tick_index
              ELSE IF args.round_up.val
              THEN args.tick_index <= ret.val
              ELSE ret.val <= args.tick_index

\* C7: for s > 0, is_tick_initializable(t, s) is true if and only if
\* get_initializable_tick_index(t, s, None) returns t.
C7_InitializableIffFixed ==
    (/\ GetTickReturned
     /\ args.tick_spacing > 0
     /\ ~args.round_up.some)
        => (is_tick_initializable(args.tick_index, args.tick_spacing) = Return(TRUE)
                <=> ret = Return(args.tick_index))

\* the multiple of s at or below t, and how far above it the multiple nearest
\* to t lies: s when t is at or past the midpoint to the next multiple, else 0
FloorMultiple(t, s) == t - (t % s)
NearestOffset(t, s) == IF 2 * (t % s) >= s THEN s ELSE 0

\* C8: for s > 0, round_up = None returns the multiple of s nearest to t, the
\* higher one at the exact midpoint.
C8_Nearest ==
    (/\ GetTickReturned
     /\ args.tick_spacing > 0
     /\ ~args.round_up.some)
        => /\ ret.kind = "value"
           /\ ret.val >= FloorMultiple(args.tick_index, args.tick_spacing)
           /\ ret.val - FloorMultiple(args.tick_index, args.tick_spacing)
                = NearestOffset(args.tick_index, args.tick_spacing)

\* the same call with the other rounding direction
OtherRounding ==
    try_get_amount_delta(args.sqrt_price_1, args.sqrt_price_2, args.liquidity,
                         ~args.round_up, overflow_checks)

\* C9: when the call succeeds with either rounding, the amount rounded up is
\* the amount rounded down when the division numerator / denominator leaves
\* no remainder, and exactly one more when it leaves one.
C9_RoundingMonotone ==
    (/\ AmountDeltaReturned
     /\ ret.kind = "Ok"
     /\ OtherRounding.kind = "Ok")
        => LET up == IF args.round_up THEN ret.val ELSE OtherRounding.val
               down == IF args.round_up THEN OtherRounding.val ELSE ret.val
               exact == locals.remainder = Some(Zero)
           IN  /\ ~Less(up, down)
               /\ exact <=> up = down
               /\ ~exact => up = Add(down, One)

\* C9 witness: a call rounding up a division that leaves a remainder, which
\* succeeds with either rounding.
C9_Witness ==
    /\ AmountDeltaReturned
    /\ args.round_up
    /\ ret.kind = "Ok"
    /\ OtherRounding.kind = "Ok"
    /\ locals.remainder.some
    /\ locals.remainder.val # Zero

\* C10: the call with the two prices exchanged has the identical outcome.
C10_OrderIndependent ==
    AmountDeltaReturned
        => ret = try_get_amount_delta(args.sqrt_price_2, args.sqrt_price_1,
                                      args.liquidity, args.round_up,
                                      overflow_checks)

\* C10 witness: a call given the larger price first that returned a non-zero
\* amount.
C10_Witness ==
    /\ AmountDeltaReturned
    /\ Less(args.sqrt_price_2, args.sqrt_price_1)
    /\ ret.kind = "Ok"
    /\ ret.val # Zero
====
